---- MODULE Spec2Model ----
(***************************************************************************)
(* Model of ondata/videochart-web: the VideoRecorder lifecycle             *)
(* (js/modules/VideoRecorder.js) and the Animator timeline                 *)
(* (Animator module, gsap timeline callbacks).                             *)
(*                                                                         *)
(* The host facilities the code drives (MediaRecorder, the gsap ticker)    *)
(* are modelled by the events they deliver to the handlers the code        *)
(* installs; where the platform's behaviour differs between hosts it is a  *)
(* nondeterministic choice.                                                *)
(***************************************************************************)
EXTENDS Integers, Sequences, FiniteSets, TLC

(* ---------------- bounds ---------------- *)
MaxStarts == 2       \* MediaRecorder objects one VideoRecorder may create
MaxStops == 2        \* promises returned by accepted stop() calls
MaxChunks == 2       \* dataavailable events delivered in one behaviour
MaxTimelines == 1    \* timelines one Animator may create
MaxDurationSteps == 2 \* durations are 0.5 s, 1 s, ... in steps of half a second
MaxBars == 3         \* bars of the chart
MaxDt == 7           \* longest time between two ticks, in sixtieths of a second
MaxCaptures == 2     \* captureFrame calls made in one behaviour
MaxRestarts == 1     \* timelines created on top of these when one is replaced
MaxTitle == 2        \* longest title, in characters
MaxRuns == 2         \* generateVideo runs that start in one behaviour
MaxRows == 2         \* longest array of a data object

\* event.data.size: the handler only tells empty data (or none) from non-empty
ChunkSizes == {0, 1}

(* ---------------- state ---------------- *)
VARIABLES
    isRecording,     \* this.isRecording
    chunks,          \* this.chunks: sequence of [id, size]
    videoBlob,       \* this.videoBlob: <<>> is null, <<bytes>> is a Blob
    stream,          \* this.stream: 0 is null, k the stream captured by start k
    mediaRecorder,   \* this.mediaRecorder: 0 is null, k the k-th MediaRecorder
    tracksStopped,   \* streams whose tracks have been stopped
    enc,             \* the MediaRecorder objects and their handlers
    promise,         \* state of the promise of each accepted stop()
    promiseEnc,      \* the MediaRecorder each stop() promise was issued on
    delivered,       \* per MediaRecorder, every chunk it has delivered
    nChunks,         \* number of dataavailable events so far
    stopped,         \* some stop() promise has resolved
    rev,             \* the last recorder call or event
    duration,        \* Animator.duration, in sixtieths of a second
    nBars,           \* bars of the chart the renderer holds
    useTypewriter,   \* Animator.useTypewriter
    debugEnabled,    \* debugLogger.isEnabled()
    timeline,        \* Animator.timeline: 0 is null, k the k-th timeline
    tl,              \* the timelines created: state, playhead, tweens
                     \* rendered to their end, the last value given to
                     \* onProgress, calls of onComplete
    frameCounter,    \* Animator.frameCounter
    cancelled,       \* timelines killed before they completed
    aev,             \* the last animator call or tick and its callbacks
    supported,       \* the media types MediaRecorder.isTypeSupported accepts
    mimeType,        \* this.mimeType
    requested,       \* per captureFrame call, the frameNumber it was passed
    pending,         \* the captureFrame calls awaiting canvas.toBlob
    frames,          \* debugLogger.frames
    logs,            \* the entries captureFrame pushed on debugLogger.logs
    data,            \* the object given to DataLoader.validateData
    validation,      \* how that validateData call ended
    saved,           \* the file name of the last download(), or its error
    app,             \* VideoChartsApp: isGenerating, what the user is shown,
                     \* the position of generateVideo's completion callback
    config,          \* configManager.config
    recording,       \* what the recording renderer, the recording canvas and
                     \* the VideoRecorder were constructed with
    loader,          \* DataLoader: data, fileName and how the last load ended
    currentData,     \* VideoChartsApp.currentData
    sessionStart,    \* captureFrame calls made before debugLogger's session
    surface          \* what the recording canvas shows

recVars == <<isRecording, chunks, videoBlob, stream, mediaRecorder,
             tracksStopped, enc, promise, promiseEnc, delivered, nChunks,
             stopped, rev>>

aniVars == <<duration, nBars, useTypewriter, debugEnabled, timeline, tl,
             frameCounter, cancelled, aev>>

hostVars == <<supported, mimeType>>

dbgVars == <<requested, pending, frames, logs>>

ioVars == <<data, validation, saved>>

appVars == <<app>>

uiVars == <<config, recording, loader, currentData, sessionStart>>

canvasVars == <<surface>>

vars == <<recVars, aniVars, hostVars, dbgVars, ioVars, appVars, uiVars,
          canvasVars>>

Null == <<>>
Encoders == 1..MaxStarts
Promises == 1..MaxStops

\* a MediaRecorder: stopPending while its stop event is queued, finalized once
\* the stop event has fired, onstop and onerror the promise the handlers
\* installed by stop() settle (0: no handler)
NoEncoder == [state |-> "none", stopPending |-> FALSE, finalized |-> FALSE,
              errored |-> FALSE, onstop |-> 0, onerror |-> 0]

Event(op, result, p) == [op |-> op, result |-> result, promise |-> p]

(* ---------------- Blob ---------------- *)
\* the bytes of one chunk: size bytes, each tagged with the chunk's id
ChunkBytes(c) == [i \in 1..c.size |-> c.id]

RECURSIVE Concat(_)
Concat(cs) == IF cs = <<>> THEN <<>> ELSE ChunkBytes(Head(cs)) \o Concat(Tail(cs))

\* new Blob(parts): the concatenation of the parts in order
NewBlob(parts) == <<Concat(parts)>>

BlobSize(b) == Len(b[1])

(* ---------------- VideoRecorder.detectMimeType ---------------- *)
\* the preference list, best first
Types == <<"video/webm;codecs=vp9", "video/webm;codecs=vp8", "video/webm",
           "video/mp4">>

TypeSet == {Types[i] : i \in 1..Len(Types)}

\* the fallback: no type is named and the host picks its default
NoType == ""

DetectMimeTypeLast(sup) ==
    LET hits == SelectSeq(Types, LAMBDA t : t \in sup)
    IN  IF hits = <<>> THEN NoType ELSE hits[Len(hits)]

\* the first type of the list the host supports
DetectMimeType(sup) ==
    LET hits == SelectSeq(Types, LAMBDA t : t \in sup)
    IN  IF hits = <<>> THEN NoType ELSE Head(hits)

(* ---------------- VideoRecorder.start ---------------- *)
StartGuardMissing == FALSE

StartGuard == isRecording

NextEncoder == Cardinality({e \in Encoders : enc[e].state # "none"}) + 1

\* new MediaRecorder(stream, {mimeType}): a type detectMimeType found is
\* supported; with no type named the host records in its default format, or
\* raises NotSupportedError when it has none
ConstructorMayThrow == mimeType = NoType

\* the stream a start() captured before its MediaRecorder failed to construct
OrphanStream(k) == 0 - k

\* busy is the isRecording the guard reads: this.isRecording, and
\* false on a VideoRecorder that has just been constructed
StartFrom(busy) ==
    /\ \/ /\ busy
          /\ rev' = Event("start", "error", 0)
          /\ UNCHANGED <<isRecording, chunks, videoBlob, stream, mediaRecorder,
                         tracksStopped, enc, promise, promiseEnc, delivered,
                         nChunks, stopped>>
       \/ /\ ~busy
          /\ NextEncoder <= MaxStarts
          /\ LET k == NextEncoder IN
             /\ chunks' = <<>>
             /\ videoBlob' = Null
             /\ stream' = k
             /\ mediaRecorder' = k
             /\ enc' = [enc EXCEPT ![k] = [NoEncoder EXCEPT !.state = "recording"]]
             /\ isRecording' = TRUE
          /\ rev' = Event("start", "ok", 0)
          /\ UNCHANGED <<tracksStopped, promise, promiseEnc, delivered, nChunks,
                         stopped>>
       \/ /\ ~busy
          /\ NextEncoder <= MaxStarts
          /\ ConstructorMayThrow
          /\ chunks' = <<>>
          /\ videoBlob' = Null
          /\ stream' = OrphanStream(NextEncoder)
          /\ rev' = Event("start", "notSupported", 0)
          /\ UNCHANGED <<isRecording, mediaRecorder, tracksStopped, enc, promise,
                         promiseEnc, delivered, nChunks, stopped>>

StartCall == StartFrom(StartGuard)

Start ==
    /\ StartCall
    /\ UNCHANGED <<aniVars, hostVars, uiVars, dbgVars, ioVars,
                   appVars, canvasVars>>

(* ---------------- VideoRecorder.stop ---------------- *)
StopGuardRecorderOnly == mediaRecorder = 0

StopGuard == ~isRecording \/ mediaRecorder = 0

NextPromise == Cardinality({p \in Promises : promise[p] # "unused"}) + 1

\* mediaRecorder.stop() on an inactive MediaRecorder either returns silently
\* or raises InvalidStateError, depending on the host
StopCall ==
    /\ \/ /\ StopGuard
          /\ rev' = Event("stop", "error", 0)
          /\ UNCHANGED <<isRecording, chunks, videoBlob, stream, mediaRecorder,
                         tracksStopped, enc, promise, promiseEnc, delivered,
                         nChunks, stopped>>
       \/ /\ ~StopGuard
          /\ NextPromise <= MaxStops
          /\ LET p == NextPromise
                 m == mediaRecorder
                 handlers == [enc[m] EXCEPT !.onstop = p, !.onerror = p]
             IN  /\ promiseEnc' = [promiseEnc EXCEPT ![p] = m]
                 /\ \/ /\ enc[m].state = "recording"
                       /\ enc' = [enc EXCEPT ![m] = [handlers EXCEPT
                                     !.state = "inactive", !.stopPending = TRUE]]
                       /\ promise' = [promise EXCEPT ![p] = "pending"]
                       /\ rev' = Event("stop", "pending", p)
                    \/ /\ enc[m].state = "inactive"
                       /\ enc' = [enc EXCEPT ![m] = handlers]
                       /\ \/ /\ promise' = [promise EXCEPT ![p] = "pending"]
                             /\ rev' = Event("stop", "pending", p)
                          \/ /\ promise' = [promise EXCEPT ![p] = "rejected"]
                             /\ rev' = Event("stop", "rejected", p)
          /\ UNCHANGED <<isRecording, chunks, videoBlob, stream, mediaRecorder,
                         tracksStopped, delivered, nChunks, stopped>>

Stop ==
    /\ StopCall
    /\ UNCHANGED <<aniVars, hostVars, uiVars, dbgVars, ioVars,
                   appVars, canvasVars>>

(* ---------------- mediaRecorder.ondataavailable ---------------- *)
\* a MediaRecorder delivers data while it records and, once inactivated,
\* until its stop event has been fired
Delivering(e) == enc[e].state = "recording" \/ enc[e].stopPending

PushChunk(cs, c) == IF c.size > 0 THEN Append(cs, c) ELSE cs

OnDataAvailable(e, size) ==
    /\ Delivering(e)
    /\ nChunks < MaxChunks
    /\ LET c == [id |-> nChunks + 1, size |-> size] IN
       /\ chunks' = PushChunk(chunks, c)
       /\ delivered' = [delivered EXCEPT ![e] = Append(@, c)]
    /\ nChunks' = nChunks + 1
    /\ rev' = Event("ondataavailable", "ok", 0)
    /\ UNCHANGED <<isRecording, videoBlob, stream, mediaRecorder,
                   tracksStopped, enc, promise, promiseEnc, stopped>>
    /\ UNCHANGED <<aniVars, hostVars, uiVars, dbgVars, ioVars,
                   appVars, canvasVars>>

(* ---------------- mediaRecorder.onstop ---------------- *)
StopTracksSkipped(s, ts) == ts

StopTracks(s, ts) == IF s # 0 THEN ts \cup {s} ELSE ts

Settle(p, outcome) ==
    IF p # 0 /\ promise[p] = "pending"
    THEN [promise EXCEPT ![p] = outcome] ELSE promise

Settles(p) == p # 0 /\ promise[p] = "pending"

\* the stop event of MediaRecorder e; the handler runs only if stop() set it
OnStop(e) ==
    /\ enc[e].stopPending
    /\ enc' = [enc EXCEPT ![e] = [@ EXCEPT !.stopPending = FALSE,
                                           !.finalized = TRUE]]
    /\ LET p == enc[e].onstop IN
       IF p # 0
       THEN /\ videoBlob' = NewBlob(chunks)
            /\ isRecording' = FALSE
            /\ tracksStopped' = StopTracks(stream, tracksStopped)
            /\ promise' = Settle(p, "resolved")
            /\ stopped' = (stopped \/ Settles(p))
            /\ rev' = Event("onstop", IF Settles(p) THEN "resolved" ELSE "ok", p)
       ELSE /\ rev' = Event("onstop", "unhandled", 0)
            /\ UNCHANGED <<videoBlob, isRecording, tracksStopped, promise,
                           stopped>>
    /\ UNCHANGED <<chunks, stream, mediaRecorder, promiseEnc, delivered,
                   nChunks>>
    /\ UNCHANGED <<aniVars, hostVars, uiVars, dbgVars, ioVars,
                   appVars, canvasVars>>

(* ---------------- mediaRecorder.onerror ---------------- *)
\* the error event of MediaRecorder e: the MediaRecorder is inactivated and
\* the host may or may not follow up with a stop event
OnError(e) ==
    /\ Delivering(e)
    /\ ~enc[e].errored
    /\ \E follow \in BOOLEAN :
          enc' = [enc EXCEPT ![e] = [@ EXCEPT !.state = "inactive",
                     !.errored = TRUE, !.stopPending = follow]]
    /\ LET p == enc[e].onerror IN
       IF p # 0
       THEN /\ isRecording' = FALSE
            /\ promise' = Settle(p, "rejected")
            /\ rev' = Event("onerror", IF Settles(p) THEN "rejected" ELSE "ok", p)
       ELSE /\ rev' = Event("onerror", "unhandled", 0)
            /\ UNCHANGED <<isRecording, promise>>
    /\ UNCHANGED <<chunks, videoBlob, stream, mediaRecorder, tracksStopped,
                   promiseEnc, delivered, nChunks, stopped>>
    /\ UNCHANGED <<aniVars, hostVars, uiVars, dbgVars, ioVars,
                   appVars, canvasVars>>

\* a MediaRecorder whose stream's tracks have all been stopped inactivates
\* itself and queues its stop event
TracksEnded(e) ==
    /\ enc[e].state = "recording"
    /\ e \in tracksStopped
    /\ enc' = [enc EXCEPT ![e] = [@ EXCEPT !.state = "inactive",
                                           !.stopPending = TRUE]]
    /\ rev' = Event("tracksended", "ok", 0)
    /\ UNCHANGED <<isRecording, chunks, videoBlob, stream, mediaRecorder,
                   tracksStopped, promise, promiseEnc, delivered, nChunks,
                   stopped>>
    /\ UNCHANGED <<aniVars, hostVars, uiVars, dbgVars, ioVars,
                   appVars, canvasVars>>

(* ---------------- VideoRecorder.download ---------------- *)
\* a file name is the sequence of its dot-separated parts, each part after
\* the first with its dot: "clip.webm" is <<"clip", ".webm">>
FileNames == {<<"chart-video">>, <<"clip", ".webm">>, <<"clip", ".mp4">>,
              <<"clip", ".mp4", ".webm">>}

\* this.mimeType.includes('mp4'), over the values detectMimeType returns
IncludesMp4(t) == t = "video/mp4"

ExtensionAlwaysWebm(t) == ".webm"

Extension(t) == IF IncludesMp4(t) THEN ".mp4" ELSE ".webm"

EndsWith(name, ext) == name[Len(name)] = ext

FullFilename(name, ext) == IF EndsWith(name, ext) THEN name ELSE Append(name, ext)

NotSaved == [name |-> <<>>, file |-> <<>>, error |-> FALSE]

Download(name) ==
    /\ saved' = IF videoBlob = Null
                THEN [name |-> name, file |-> <<>>, error |-> TRUE]
                ELSE [name |-> name,
                      file |-> FullFilename(name, Extension(mimeType)),
                      error |-> FALSE]
    /\ UNCHANGED <<data, validation>>
    /\ UNCHANGED <<recVars, aniVars, hostVars, uiVars, dbgVars,
                   appVars, canvasVars>>

(* ---------------- DataLoader.validateData ---------------- *)
\* the values a parsed JSON array can hold, by what typeof and isNaN tell
\* of them (JSON.parse yields Infinity for a literal such as 1e999)
JsonValues == {"number", "NaN", "Infinity", "-Infinity", "string", "null"}

TypeOf(v) == IF v \in {"number", "NaN", "Infinity", "-Infinity"} THEN "number"
             ELSE IF v = "string" THEN "string" ELSE "object"

IsNaN(v) == v \in {"NaN", "string"}

Arrays(S) == UNION {[1..n -> S] : n \in 0..MaxRows}

\* a field of the data object: absent (or another falsy value), a value
\* that is not an array, or an array
Field(kind, items) == [kind |-> kind, items |-> items]

Fields(S) == {Field("missing", <<>>), Field("other", <<>>)}
                \cup {Field("array", a) : a \in Arrays(S)}

NotAnObject == [object |-> FALSE, countries |-> Field("missing", <<>>),
                gdp |-> Field("missing", <<>>)]

DataObjects ==
    {NotAnObject} \cup
    [object : {TRUE}, countries : Fields({"label"}), gdp : Fields(JsonValues)]

InvalidValue(v) == TypeOf(v) # "number" \/ IsNaN(v)

\* the error the call throws, or "ok"
ValidateDataResult(d) ==
    IF ~d.object THEN "notObject"
    ELSE IF d.countries.kind # "array" THEN "countries"
    ELSE IF d.gdp.kind # "array" THEN "gdp"
    ELSE IF Len(d.countries.items) # Len(d.gdp.items) THEN "length"
    ELSE IF Len(d.countries.items) = 0 THEN "empty"
    ELSE IF SelectSeq(d.gdp.items, InvalidValue) # <<>> THEN "values"
    ELSE "ok"

ValidateData ==
    /\ validation' = ValidateDataResult(data)
    /\ UNCHANGED <<data, saved>>
    /\ UNCHANGED <<recVars, aniVars, hostVars, uiVars, dbgVars,
                   appVars, canvasVars>>

(* ---------------- Animator: the timeline's schedule ---------------- *)
\* times are in sixtieths of a second
StaggerDelay == 9        \* index * 0.15 s
FrameInterval == 2       \* 1 / fps with fps = 30
CaptureEvery == 10

Durations == {30 * k : k \in 1..MaxDurationSteps}
Timelines == 1..(MaxTimelines + MaxRestarts)

TitleDuration(D) == (D * 2) \div 10
BarsDuration(D) == (D * 4) \div 10
LabelsDuration(D) == (D * 2) \div 10
HoldDuration(D) == (D * 2) \div 10

\* the tweens with an onUpdate: 0 the title, 1..n the bars, n+1 the labels
TitleTween == 0
LabelsTween(n) == n + 1
Tweens(n) == 0..(n + 1)
IsBarTween(n, w) == w >= 1 /\ w <= n

TweenStartReversed(D, n, w) ==
    IF w = TitleTween THEN 0
    ELSE IF IsBarTween(n, w) THEN TitleDuration(D) + (n - w) * StaggerDelay
    ELSE TitleDuration(D) + BarsDuration(D)

TweenStart(D, n, w) ==
    IF w = TitleTween THEN 0
    ELSE IF IsBarTween(n, w) THEN TitleDuration(D) + (w - 1) * StaggerDelay
    ELSE TitleDuration(D) + BarsDuration(D)

TweenEnd(D, n, w) ==
    TweenStart(D, n, w) +
    (IF w = TitleTween THEN TitleDuration(D)
     ELSE IF IsBarTween(n, w) THEN BarsDuration(D) \div n
     ELSE LabelsDuration(D))

Max(a, b) == IF a >= b THEN a ELSE b

\* the hold tween is appended at the end of what the timeline holds so far:
\* the end of the labels tween or of the last bar's tween
HoldStart(D, n) == Max(TweenEnd(D, n, LabelsTween(n)), TweenEnd(D, n, n))

TotalDuration(D, n) == HoldStart(D, n) + HoldDuration(D)

\* a timeline keeps its children sorted by start time, in insertion order
\* among equal start times: the title, the bars that start no later than
\* the labels, the labels, the other bars
RenderOrder(D, n) ==
    LET bars == [i \in 1..n |-> i]
        early(w) == TweenStart(D, n, w) <= TweenStart(D, n, LabelsTween(n))
        late(w) == ~early(w)
    IN  <<TitleTween>> \o SelectSeq(bars, early) \o <<LabelsTween(n)>>
          \o SelectSeq(bars, late)

(* ---------------- Animator.redrawChart ---------------- *)
\* what the tween's onUpdate passes as titleElement: the title tween passes
\* the object, the bar and label tweens pass titleElement.opacity, which is
\* a number in fade mode and undefined in typewriter mode
TitleArgument(w) ==
    IF w = TitleTween THEN "object"
    ELSE IF useTypewriter THEN "undefined" ELSE "number"

\* reading titleElement.charsVisible of undefined raises a TypeError
RedrawThrows(arg) == useTypewriter /\ arg = "undefined"

(* ---------------- the timeline's tick ---------------- *)
\* progress is the last value given to onProgress, -1 before the first call
\* scaleX holds barsState[i].scaleX and opacity titleElement.opacity, in
\* percent; opacity is Undefined in typewriter mode, where titleElement
\* has no such property
Undefined == -1

\* labels holds labelsState.opacity, in percent
NoTimeline == [state |-> "none", time |-> 0, done |-> {},
               progress |-> -1, completeCalls |-> 0, empty |-> FALSE,
               scaleX |-> <<>>, opacity |-> Undefined, labels |-> 0]

NewTimeline == [NoTimeline EXCEPT !.state = "active",
                                  !.scaleX = [i \in 1..nBars |-> 0],
                                  !.opacity = IF useTypewriter THEN Undefined
                                              ELSE 0]

\* the timeline a failed createHorizontalBarChartTimeline leaves: created
\* with its callbacks, no tween added
EmptyTimeline == [NewTimeline EXCEPT !.empty = TRUE]

\* alphas: the globalAlpha each redraw of the tick drew the title with;
\* chars: the number of characters of the title each of them drew
AnimatorEvent(op, k, cbs, capture) ==
    [op |-> op, tl |-> k, cbs |-> cbs, capture |-> capture, alphas |-> <<>>,
     chars |-> <<>>]

(* ---------------- the tweens' values ---------------- *)
\* the tween's progress at playhead t, as elapsed time over its duration
Elapsed(w, t) ==
    LET e == t - TweenStart(duration, nBars, w)
        d == TweenEnd(duration, nBars, w) - TweenStart(duration, nBars, w)
    IN  IF e > d THEN d ELSE e

Length(w) == TweenEnd(duration, nBars, w) - TweenStart(duration, nBars, w)

\* ease power2.out, 1 - (1 - p)^2, and power3.out, 1 - (1 - p)^3, in percent
Power2Out(e, d) == (100 * (d * d - (d - e) * (d - e))) \div (d * d)

Power3Out(e, d) ==
    (100 * (d * d * d - (d - e) * (d - e) * (d - e))) \div (d * d * d)

\* this.ctx.globalAlpha = titleElement.opacity || 0: the opacity property of
\* the object, and 0 when a number was passed, which has no such property;
\* the typewriter branch leaves the context's alpha of 1
TitleAlpha(arg, opacity) ==
    IF useTypewriter THEN 100
    ELSE IF arg = "object" THEN opacity ELSE 0

ClampTime(t, total) == IF t > total THEN total ELSE t

\* timeline.progress() * 100 at playhead t, as a multiple of
\* 1 / TotalDuration: the value v stands for v / TotalDuration percent
ProgressOfDuration(t) ==
    (t * 100 * TotalDuration(duration, nBars)) \div duration

ProgressPercent(t) == t * 100

\* the children of the timeline render in order; a tween renders when the
\* playhead has reached its start and it has not been rendered to its end;
\* an exception raised by a callback ends the tick, so the tweens after the
\* one whose redraw throws are not rendered
Rendering(t, done) ==
    SelectSeq(RenderOrder(duration, nBars),
              LAMBDA w : t >= TweenStart(duration, nBars, w) /\ w \notin done)

Rendered(t, done) ==
    LET r == Rendering(t, done)
        bad == {i \in 1..Len(r) : RedrawThrows(TitleArgument(r[i]))}
    IN  IF bad = {} THEN r
        ELSE SubSeq(r, 1, CHOOSE i \in bad : \A j \in bad : i <= j)

RenderChildren(t, done) ==
    LET r == Rendered(t, done) IN
    [done |-> done \cup {r[i] : i \in {j \in 1..Len(r) :
                                  t >= TweenEnd(duration, nBars, r[j])}},
     cbs |-> [i \in 1..Len(r) |->
                IF RedrawThrows(TitleArgument(r[i])) THEN "redrawError"
                ELSE "redraw"],
     threw |-> \E i \in 1..Len(r) : RedrawThrows(TitleArgument(r[i])),
     rendered |-> {r[i] : i \in 1..Len(r)},
     order |-> r]

\* a rendered tween sets its target's property before it calls onUpdate
ScaleAfter(scaleX, rendered, t) ==
    [i \in 1..nBars |->
        IF i \in rendered THEN Power3Out(Elapsed(i, t), Length(i))
        ELSE scaleX[i]]

OpacityAfter(opacity, rendered, t) ==
    IF TitleTween \in rendered /\ ~useTypewriter
    THEN Power2Out(Elapsed(TitleTween, t), Length(TitleTween))
    ELSE opacity

\* the alpha of each redraw that ran to its fillText
Alphas(order, opacity) ==
    LET drawn == SelectSeq(order, LAMBDA w : ~RedrawThrows(TitleArgument(w)))
    IN  [i \in 1..Len(drawn) |-> TitleAlpha(TitleArgument(drawn[i]), opacity)]

LabelsAfter(labels, rendered, t) ==
    IF LabelsTween(nBars) \in rendered
    THEN Power2Out(Elapsed(LabelsTween(nBars), t), Length(LabelsTween(nBars)))
    ELSE labels

\* the typewriter tween takes charsVisible from 0 to the title's length with
\* ease 'none'; redrawChart shows the first Math.floor(charsVisible)
\* characters, and the whole title in fade mode
TitleChars(t) ==
    IF useTypewriter
    THEN (recording.title * Elapsed(TitleTween, t)) \div Length(TitleTween)
    ELSE recording.title

Chars(order, t) ==
    LET drawn == SelectSeq(order, LAMBDA w : ~RedrawThrows(TitleArgument(w)))
    IN  [i \in 1..Len(drawn) |-> TitleChars(t)]

(* ---------------- the recording canvas ---------------- *)
\* alpha and chars describe the title as drawn, bars the scale of each bar
\* and labels the opacity of the value labels, in percent
\*
\* a redraw that throws has filled the canvas with the background colour
\* and drawn nothing yet
Cleared == [alpha |-> 0, chars |-> 0, bars |-> [i \in 1..nBars |-> 0],
            labels |-> 0]

\* renderHorizontalBarChart draws the finished chart: Chart.js is created
\* with animation: false, the title displayed and the value labels drawn by
\* the customLabels plugin
StaticChart(title) == [alpha |-> 100, chars |-> title,
                       bars |-> [i \in 1..nBars |-> 100], labels |-> 100]

\* ChartRenderer.destroy clears the canvas
Erased == [alpha |-> 0, chars |-> 0, bars |-> [i \in 1..nBars |-> 0],
           labels |-> 0]

\* r is the timeline after the tick's tweens have set their values
Drawn(w, r) ==
    [alpha |-> TitleAlpha(TitleArgument(w), r.opacity),
     chars |-> TitleChars(r.time),
     bars |-> r.scaleX,
     labels |-> r.labels]

\* the canvas shows what the last redraw of the tick drew
SurfaceAfter(order, r) ==
    IF order = <<>> THEN surface
    ELSE LET w == order[Len(order)]
         IN  IF RedrawThrows(TitleArgument(w)) THEN Cleared ELSE Drawn(w, r)

ExpectedFrame(t) == t \div FrameInterval

Captures(fc) == fc = 1 \/ fc % CaptureEvery = 0

\* captureCurrentFrame(name, number): debugLogger.captureFrame runs up to its
\* await of canvas.toBlob; the call keeps the frameNumber it was passed
CaptureCall(c, number) == [call |-> c, frameNumber |-> number]

\* the ticker renders a live timeline that has not reached its end; the
\* captures requested earlier are promises nobody awaits
Completes(e) ==
    e.op = "tick" /\ \E i \in 1..Len(e.cbs) : e.cbs[i] = "complete"

TickingWhenIdle(k) ==
    /\ tl[k].state = "active"
    /\ ~tl[k].empty
    /\ tl[k].time < TotalDuration(duration, nBars)
    /\ pending = {}

Ticking(k) ==
    /\ tl[k].state = "active"
    /\ ~tl[k].empty
    /\ tl[k].time < TotalDuration(duration, nBars)

TickCall(k, dt) ==
    /\ Ticking(k)
    /\ \E total \in {TotalDuration(duration, nBars)} :
       \E t \in {ClampTime(tl[k].time + dt, total)} :
       \E kids \in {RenderChildren(t, tl[k].done)} :
       \* onUpdate reads this.timeline
       \E read \in {IF timeline = 0 \/ timeline = k THEN t
                    ELSE tl[timeline].time} :
       LET updateThrows == timeline = 0
           value == ProgressPercent(read)
           expected == ExpectedFrame(read)
           counts == debugEnabled /\ expected > frameCounter
           captures == counts /\ Captures(expected)
           completes == t = total
       IN  IF kids.threw \/ updateThrows
           THEN /\ tl' = [tl EXCEPT ![k] = [@ EXCEPT
                          !.time = t,
                          !.done = kids.done,
                          !.scaleX = ScaleAfter(@, kids.rendered, t),
                          !.opacity = OpacityAfter(@, kids.rendered, t),
                          !.labels = LabelsAfter(@, kids.rendered, t)]]
                /\ aev' = [AnimatorEvent("tick", k,
                              IF kids.threw THEN kids.cbs
                              ELSE Append(kids.cbs, "updateError"), 0)
                           EXCEPT !.alphas = Alphas(kids.order,
                                     OpacityAfter(tl[k].opacity,
                                                  kids.rendered, t)),
                                  !.chars = Chars(kids.order, t)]
                /\ surface' = SurfaceAfter(kids.order, tl'[k])
                /\ UNCHANGED <<frameCounter, requested, pending>>
           ELSE /\ tl' = [tl EXCEPT ![k] = [@ EXCEPT
                          !.time = t,
                          !.done = kids.done,
                          !.scaleX = ScaleAfter(@, kids.rendered, t),
                          !.opacity = OpacityAfter(@, kids.rendered, t),
                          !.labels = LabelsAfter(@, kids.rendered, t),
                          !.progress = value,
                          !.completeCalls = IF completes THEN @ + 1 ELSE @,
                          !.state = IF completes THEN "completed" ELSE @]]
                /\ captures => Len(requested) < MaxCaptures
                /\ frameCounter' = IF counts THEN expected ELSE frameCounter
                /\ requested' = IF captures THEN Append(requested, expected)
                                 ELSE requested
                /\ pending' = IF captures
                               THEN pending \cup
                                    {CaptureCall(Len(requested) + 1, expected)}
                               ELSE pending
                /\ aev' = [AnimatorEvent("tick", k,
                              kids.cbs \o <<"progress">>
                                \o (IF captures THEN <<"capture">> ELSE <<>>)
                                \o (IF completes THEN <<"complete">> ELSE <<>>),
                              IF captures THEN expected ELSE 0)
                           EXCEPT !.alphas = Alphas(kids.order,
                                     OpacityAfter(tl[k].opacity,
                                                  kids.rendered, t)),
                                  !.chars = Chars(kids.order, t)]
                /\ surface' = SurfaceAfter(kids.order, tl'[k])
    /\ UNCHANGED <<duration, nBars, useTypewriter, debugEnabled, timeline,
                   cancelled, frames, logs>>

Tick(k, dt) ==
    /\ TickCall(k, dt)
    /\ UNCHANGED <<recVars, hostVars, uiVars, ioVars, appVars>>

\* the first render of a timeline without tweens: its duration is zero, so
\* it updates and completes at once; progress() of a zero-length timeline is
\* 0 or 1 depending on the library's version
EmptyTickCall(k) ==
    /\ tl[k].state = "active"
    /\ tl[k].empty
    /\ \E value \in {0, ProgressPercent(TotalDuration(duration, nBars))} :
          tl' = [tl EXCEPT ![k] = [@ EXCEPT !.progress = value,
                                            !.completeCalls = @ + 1,
                                            !.state = "completed"]]
    /\ aev' = AnimatorEvent("tick", k, <<"progress", "complete">>, 0)
    /\ UNCHANGED <<duration, nBars, useTypewriter, debugEnabled, timeline,
                   frameCounter, cancelled>>

EmptyTick(k) ==
    /\ EmptyTickCall(k)
    /\ UNCHANGED <<recVars, hostVars, uiVars, dbgVars, ioVars,
                   appVars, canvasVars>>

(* ---------------- Animator.createHorizontalBarChartTimeline ---------------- *)
\* timeline.kill(): a timeline that has not completed is never rendered
\* again, so its playhead is dropped from the state
KillTimelineAlways(t) == [NoTimeline EXCEPT !.state = "killed"]

KillTimelineSkipped(t) == t

KillTimeline(t) ==
    IF t.state = "active" THEN [NoTimeline EXCEPT !.state = "killed"] ELSE t

NextTimeline == Cardinality({k \in Timelines : tl[k].state # "none"}) + 1

Killed(k) == IF k # 0 /\ tl[k].state = "active" THEN {k} ELSE {}

\* chart is what chartRenderer.getChart() returns: without a chart the call
\* throws after it has killed the old timeline, reset the frame counter and
\* stored the new timeline
\*
\* current is the this.timeline the call finds: the Animator's timeline,
\* and null on an Animator that has just been constructed
CreateTimelineFrom(current, chart) ==
    /\ NextTimeline \in Timelines
    /\ LET k == NextTimeline
           old == IF current # 0
                  THEN [tl EXCEPT ![current] = KillTimeline(@)]
                  ELSE tl
       IN  /\ tl' = [old EXCEPT ![k] = IF chart THEN NewTimeline
                                       ELSE EmptyTimeline]
           /\ cancelled' = cancelled \cup Killed(current)
           /\ timeline' = k
           /\ frameCounter' = 0
           /\ aev' = AnimatorEvent(IF chart THEN "create" ELSE "createError",
                                   k, <<>>, 0)

CreateTimelineCall(chart) ==
    /\ CreateTimelineFrom(timeline, chart)
    /\ UNCHANGED <<duration, nBars, useTypewriter, debugEnabled>>

CreateTimeline(chart) ==
    /\ CreateTimelineCall(chart)
    /\ UNCHANGED <<recVars, hostVars, uiVars, dbgVars, ioVars,
                   appVars, canvasVars>>

(* ---------------- Animator.destroy ---------------- *)
DestroyCall ==
    /\ IF timeline # 0
       THEN /\ tl' = [tl EXCEPT ![timeline] = KillTimeline(@)]
            /\ cancelled' = cancelled \cup Killed(timeline)
            /\ timeline' = 0
       ELSE UNCHANGED <<tl, cancelled, timeline>>
    /\ aev' = AnimatorEvent("destroy", timeline, <<>>, 0)
    /\ UNCHANGED <<duration, nBars, useTypewriter, debugEnabled, frameCounter>>

Destroy ==
    /\ DestroyCall
    /\ UNCHANGED <<recVars, hostVars, uiVars, dbgVars, ioVars,
                   appVars, canvasVars>>

(* ---------------- DebugLogger.captureFrame ---------------- *)
\* canvas.toBlob calls back, in any order among the pending calls, with a
\* blob or, when the raster cannot be encoded, with null; blob.size of null
\* raises inside the try and the catch logs it
FrameNumberedAtCompletion(c) == [number |-> frameCounter, call |-> c.call]

\* the frame carries the frameNumber of its call; call tells the calls apart
Frame(c) == [number |-> c.frameNumber, call |-> c.call]

StoreFrameAlways(fs, c, ok) == Append(fs, Frame(c))

\* this.frames.push(frame) is reached only with a blob
StoreFrame(fs, c, ok) == IF ok THEN Append(fs, Frame(c)) ELSE fs

LogEntry(level, c) == [level |-> level, number |-> c.frameNumber]

ToBlobDone(c, ok) ==
    /\ c \in pending
    /\ pending' = pending \ {c}
    /\ frames' = StoreFrame(frames, c, ok)
    /\ logs' = Append(logs, LogEntry(IF ok THEN "RENDER" ELSE "ERROR", c))
    /\ UNCHANGED <<aniVars, requested>>
    /\ UNCHANGED <<recVars, hostVars, uiVars, ioVars, appVars, canvasVars>>

(* ---------------- DataLoader and the application's data ---------------- *)
\* null is the empty sequence, a data object d the sequence <<d>>
NoData == <<>>

\* the DataLoader as constructed; promise is the outcome of the last load
NoLoader == [data |-> NoData, fileName |-> "", promise |-> "none"]

\* a data object of n rows that validateData accepts
Sample(n) == [object |-> TRUE,
              countries |-> Field("array", [i \in 1..n |-> "label"]),
              gdp |-> Field("array", [i \in 1..n |-> "number"])]

\* what reading a file yields: the FileReader reports an error, JSON.parse
\* throws, or JSON.parse returns a value
LoadNames == {"a.json", "b.json"}
ExampleName == "video-data.json"

Read(kind, value) == [kind |-> kind, value |-> value]

\* the values of the files: a finite number, an infinite one and one that
\* is not a number
LoadValues == {"number", "Infinity", "string"}

LoadObjects ==
    {NotAnObject} \cup
    [object : {TRUE}, countries : Fields({"label"}), gdp : Fields(LoadValues)]

FileReads ==
    {Read("unreadable", NotAnObject), Read("invalidJSON", NotAnObject)}
        \cup {Read("parsed", d) : d \in LoadObjects}

\* what fetching the example yields: fetch rejects, the response is not ok,
\* response.json() rejects, or it returns a value
UrlReads ==
    {Read("network", NotAnObject), Read("http", NotAnObject),
     Read("invalidJSON", NotAnObject)}
        \cup {Read("parsed", d) : d \in LoadObjects}

\* the error that rejects the promise of the load, or "ok"
LoadResult(read) ==
    IF read.kind = "parsed" THEN ValidateDataResult(read.value)
    ELSE read.kind

\* this.data, this.fileName and currentData are assigned after the last
\* statement that can throw
LoadedAlways(old, new, result) == new

Loaded(old, new, result) == IF result = "ok" THEN new ELSE old

\* loadFromFile / loadFromURL, with the validateData they call
LoadCall(name, read) ==
    /\ loader' = [data |-> Loaded(loader.data, <<read.value>>,
                                  LoadResult(read)),
                  fileName |-> Loaded(loader.fileName, name, LoadResult(read)),
                  promise |-> IF LoadResult(read) = "ok" THEN "resolved"
                              ELSE "rejected"]
    /\ validation' = IF read.kind = "parsed" THEN LoadResult(read)
                     ELSE validation
    /\ UNCHANGED <<data, saved>>

\* handleFileLoad and loadExampleData: onDataLoaded after a load that
\* resolved, showError after one that rejected; strings tells whether every
\* label is a string, which validateData does not test and without which
\* the preview of onDataLoaded throws into the same catch
OnLoad(name, read, strings) ==
    /\ LoadCall(name, read)
    /\ currentData' = Loaded(currentData, <<read.value>>, LoadResult(read))
    /\ app' = [app EXCEPT !.shown = IF LoadResult(read) = "ok" /\ strings
                                    THEN @ ELSE "error"]
    /\ UNCHANGED <<config, recording, sessionStart>>
    /\ UNCHANGED <<recVars, aniVars, hostVars, dbgVars, canvasVars>>

HandleFileLoad(name, read, strings) ==
    /\ name \in LoadNames
    /\ OnLoad(name, read, strings)

LoadExampleData(read, strings) ==
    /\ read \in UrlReads
    /\ OnLoad(ExampleName, read, strings)

(* ---------------- ConfigManager ---------------- *)
\* a title is modelled by its length; the colours and the font size are
\* one style value
Titles == 1..MaxTitle
Colors == {"#000000", "#FF0000"}
Resolutions == {"480p", "1080p"}

ConfigValues(key) ==
    IF key = "title" THEN Titles
    ELSE IF key = "barColor" THEN Colors
    ELSE IF key = "videoDuration" THEN Durations
    ELSE Resolutions

ConfigKeys == {"title", "barColor", "videoDuration", "resolution"}

DefaultConfig == [title |-> 1, barColor |-> "#000000", videoDuration |-> 30,
                  resolution |-> "1080p", fps |-> 30]

Configs == [title : Titles, barColor : Colors, videoDuration : Durations,
            resolution : Resolutions, fps : {30}]

\* get() returns { ...this.config }: a new object with the values of the
\* moment of the call
Get(c) == c

GetResolution(r) ==
    IF r = "480p" THEN [width |-> 854, height |-> 480]
    ELSE [width |-> 1920, height |-> 1080]

\* lines 428-451 of generateVideo: the canvas gets the size of the
\* resolution, the renderer a copy of the configuration, the VideoRecorder
\* the frame rate
Recording(c) ==
    [title |-> c.title, barColor |-> c.barColor,
     width |-> GetResolution(c.resolution).width,
     height |-> GetResolution(c.resolution).height,
     fps |-> c.fps]

\* the recording canvas before the first run: a canvas of the default size
NoRecording == [title |-> 0, barColor |-> "", width |-> 300, height |-> 150,
                fps |-> 0]

\* what the objects of the run hold after configManager.config has become
\* c: they were given copies, so what they hold stays
HeldByReference(held, c) == Recording(c)

Held(held, c) == held

\* the input handlers of the configuration: configManager.setValue; the
\* preview canvas they refresh is not part of the state
SetValue(key, value) ==
    /\ config' = [config EXCEPT ![key] = value]
    /\ recording' = Held(recording, config')
    /\ UNCHANGED <<loader, currentData, sessionStart>>
    /\ UNCHANGED <<recVars, aniVars, hostVars, dbgVars, ioVars, appVars,
                   canvasVars>>

(* ---------------- specification of the recorder ---------------- *)
RecorderInit ==
    /\ isRecording = FALSE
    /\ chunks = <<>>
    /\ videoBlob = Null
    /\ stream = 0
    /\ mediaRecorder = 0
    /\ tracksStopped = {}
    /\ enc = [e \in Encoders |-> NoEncoder]
    /\ promise = [p \in Promises |-> "unused"]
    /\ promiseEnc = [p \in Promises |-> 0]
    /\ delivered = [e \in Encoders |-> <<>>]
    /\ nChunks = 0
    /\ stopped = FALSE
    /\ rev = Event("new", "ok", 0)

\* the constructor asks the host once which types it records
HostInit ==
    /\ supported \in SUBSET TypeSet
    /\ mimeType = DetectMimeType(supported)

\* the DebugLogger as constructed
DebugInit ==
    /\ requested = <<>>
    /\ pending = {}
    /\ frames = <<>>
    /\ logs = <<>>
    /\ sessionStart = 0

\* the ConfigManager, the DataLoader and the application as constructed
UiInit ==
    /\ config = DefaultConfig
    /\ loader = NoLoader
    /\ currentData = NoData

\* the recording canvas of a component on its own: a ChartRenderer with a
\* copy of the configuration has rendered the chart
RendererInit ==
    /\ recording = Recording(Get(config))
    /\ surface = StaticChart(recording.title)

\* the recording canvas of the page before the first run, with data loaded
PageInit ==
    /\ config = DefaultConfig
    /\ loader = [data |-> <<Sample(nBars)>>, fileName |-> "a.json",
                 promise |-> "resolved"]
    /\ currentData = loader.data
    /\ recording = NoRecording
    /\ surface = Erased

\* no data validated, nothing downloaded
IoInit ==
    /\ data = NotAnObject
    /\ validation = "none"
    /\ saved = NotSaved

(* ---------------- DebugLogger.startSession ---------------- *)
\* the session gets new, empty arrays for its logs and frames and logs its
\* start; sessionStart is the number of captures requested before it, so
\* the captures of the session are the calls after sessionStart
SessionEntry == [level |-> "SESSION", number |-> 0]

StartSessionCall ==
    /\ frames' = <<>>
    /\ logs' = <<SessionEntry>>
    /\ sessionStart' = Len(requested)
    /\ UNCHANGED <<requested, pending>>

(* ---------------- VideoChartsApp.generateVideo ---------------- *)
\* app.isGenerating is this.isGenerating; app.shown is what the page shows
\* of the run: the video result (showVideoResult) or an error message
\* (showError); app.callback is the position of the async completion
\* callback, app.promise the promise of stop() it awaits and app.stops the
\* number of its calls of videoRecorder.stop(); app.runs counts the runs
\* that passed the guard, app.ignored tells that a click returned at the
\* guard, and app.orphaned counts the VideoRecorders the application has
\* replaced while they were Recording
\*
\* generateVideo constructs a new ChartRenderer, a new Animator and a new
\* VideoRecorder: start() finds isRecording false and
\* createHorizontalBarChartTimeline no timeline. The Animator is
\* constructed with the duration, the title mode and the chart that the
\* state holds. start() is awaited and createHorizontalBarChartTimeline
\* follows in the same turn of the event loop; an exception of either ends
\* in the catch, which shows the error and resets isGenerating
\*
\* with the debug logger enabled the run opens a debug session first; of
\* the log only the entries of the session and of the captures are kept
GenerateVideo(chart) ==
    IF app.isGenerating \/ currentData = NoData
    THEN /\ app' = [app EXCEPT !.ignored = TRUE]
         /\ UNCHANGED <<recVars, aniVars, hostVars, dbgVars, ioVars, uiVars,
                        canvasVars>>
    ELSE /\ recording' = Recording(Get(config))
         /\ surface' = StaticChart(recording'.title)
         /\ duration' = Get(config).videoDuration
         /\ UNCHANGED <<nBars, useTypewriter, debugEnabled>>
         /\ StartFrom(FALSE)
         /\ LET run == [app EXCEPT
                          !.runs = @ + 1,
                          !.callback = "none",
                          !.promise = 0,
                          !.stops = 0,
                          !.orphaned = IF isRecording THEN @ + 1 ELSE @]
            IN  IF rev'.result = "ok"
                THEN /\ CreateTimelineFrom(0, chart)
                     /\ app' = [run EXCEPT
                                  !.isGenerating = chart,
                                  !.shown = IF chart THEN "none" ELSE "error"]
                ELSE /\ UNCHANGED <<timeline, tl, frameCounter, cancelled,
                                    aev>>
                     /\ app' = [run EXCEPT !.shown = "error"]
         /\ IF debugEnabled THEN StartSessionCall
            ELSE UNCHANGED <<dbgVars, sessionStart>>
         /\ UNCHANGED <<config, loader, currentData>>
         /\ UNCHANGED <<hostVars, ioVars>>

\* the completion callback up to its await: it calls videoRecorder.stop();
\* a stop() that throws, or that returns a rejected promise, rejects the
\* promise of the async callback, which gsap drops
CallbackAfterStop(r) ==
    [app EXCEPT !.stops = @ + 1,
                !.promise = r.promise,
                !.callback = IF r.result = "pending" THEN "awaiting"
                             ELSE "rejected"]

\* a tick of the timeline; the tick that completes it runs the completion
\* callback up to its await
AppTick(k, dt) ==
    /\ TickCall(k, dt)
    /\ IF Completes(aev')
       THEN /\ StopCall
            /\ app' = CallbackAfterStop(rev')
       ELSE UNCHANGED <<recVars, appVars>>
    /\ UNCHANGED <<hostVars, uiVars, ioVars>>

AppEmptyTick(k) ==
    /\ EmptyTickCall(k)
    /\ StopCall
    /\ app' = CallbackAfterStop(rev')
    /\ UNCHANGED <<hostVars, uiVars, dbgVars, ioVars, canvasVars>>

\* the completion callback after its await
CallbackOutcomeAlwaysDone(p) == "done"

CallbackOutcome(p) == IF promise[p] = "resolved" THEN "done" ELSE "rejected"

Resume ==
    /\ app.callback = "awaiting"
    /\ promise[app.promise] \in {"resolved", "rejected"}
    /\ IF CallbackOutcome(app.promise) = "done"
       THEN /\ DestroyCall
            /\ surface' = Erased
            /\ app' = [app EXCEPT !.callback = "done",
                                  !.shown = "result",
                                  !.isGenerating = FALSE]
       ELSE /\ UNCHANGED <<aniVars, canvasVars>>
            /\ app' = [app EXCEPT !.callback = "rejected"]
    /\ UNCHANGED <<recVars, hostVars, uiVars, dbgVars, ioVars>>

\* the application as constructed: isGenerating = false, nothing shown
NoRun == [isGenerating |-> FALSE, shown |-> "none", callback |-> "none",
          promise |-> 0, stops |-> 0, runs |-> 0, ignored |-> FALSE,
          orphaned |-> 0]

AppInit == app = NoRun

\* the Animator as constructed: no timeline yet
AnimatorInit ==
    /\ duration \in Durations
    /\ nBars \in 1..MaxBars
    /\ useTypewriter \in BOOLEAN
    /\ debugEnabled \in BOOLEAN
    /\ timeline = 0
    /\ tl = [k \in Timelines |-> NoTimeline]
    /\ frameCounter = 0
    /\ cancelled = {}
    /\ aev = AnimatorEvent("new", 0, <<>>, 0)

\* the recorder on its own, next to an Animator that is never started
Init ==
    /\ RecorderInit
    /\ HostInit
    /\ AnimatorInit
    /\ DebugInit
    /\ UiInit
    /\ RendererInit
    /\ IoInit
    /\ AppInit
    /\ duration = 30 /\ nBars = 1 /\ ~useTypewriter /\ ~debugEnabled
    /\ supported = TypeSet

Next ==
    \/ Start
    \/ Stop
    \/ \E e \in Encoders, size \in ChunkSizes : OnDataAvailable(e, size)
    \/ \E e \in Encoders : OnStop(e)
    \/ \E e \in Encoders : OnError(e)
    \/ \E e \in Encoders : TracksEnded(e)

Spec == Init /\ [][Next]_vars

(* ---------------- specification of the recorder on any host ---------------- *)
\* the recorder on a host of any codec support, with an encoder that
\* delivers its data at the stop and reports no error
CodecInit ==
    /\ RecorderInit
    /\ HostInit
    /\ AnimatorInit
    /\ DebugInit
    /\ UiInit
    /\ RendererInit
    /\ IoInit
    /\ AppInit
    /\ duration = 30 /\ nBars = 1 /\ ~useTypewriter /\ ~debugEnabled

CodecNext ==
    \/ Start
    \/ Stop
    \/ \E e \in Encoders, size \in ChunkSizes : OnDataAvailable(e, size)
    \/ \E e \in Encoders : OnStop(e)
    \/ \E name \in FileNames : Download(name)

CodecSpec == CodecInit /\ [][CodecNext]_vars

(* ---------------- specification of the data validation ---------------- *)
\* validateData applied to any value a parsed JSON or CSV file can hold
DataInit ==
    /\ RecorderInit
    /\ HostInit
    /\ AnimatorInit
    /\ DebugInit
    /\ UiInit
    /\ RendererInit
    /\ AppInit
    /\ duration = 30 /\ nBars = 1 /\ ~useTypewriter /\ ~debugEnabled
    /\ supported = TypeSet
    /\ data \in DataObjects
    /\ validation = "none"
    /\ saved = NotSaved

DataNext == ValidateData

DataSpec == DataInit /\ [][DataNext]_vars

(* ---------------- specification of the Animator ---------------- *)
\* the Animator on its own, without a debug session, next to a recorder
\* that is never started
AnimatorSpecInit ==
    /\ RecorderInit
    /\ HostInit
    /\ AnimatorInit
    /\ DebugInit
    /\ UiInit
    /\ RendererInit
    /\ IoInit
    /\ AppInit
    /\ supported = TypeSet
    /\ ~debugEnabled

AnimatorNext ==
    \/ \E chart \in BOOLEAN :
          NextTimeline <= MaxTimelines /\ CreateTimeline(chart)
    \/ \E k \in Timelines, dt \in 1..MaxDt : Tick(k, dt)
    \/ \E k \in Timelines : EmptyTick(k)
    \/ Destroy

AnimatorSpec == AnimatorSpecInit /\ [][AnimatorNext]_vars

(* ---------------- specification of a debug session ---------------- *)
\* the Animator with the debug logger enabled: a one-bar chart animated
\* over half a second, the title fading in, frames captured while the
\* timeline runs
CaptureInit ==
    /\ RecorderInit
    /\ HostInit
    /\ AnimatorInit
    /\ DebugInit
    /\ UiInit
    /\ RendererInit
    /\ IoInit
    /\ AppInit
    /\ supported = TypeSet
    /\ debugEnabled /\ ~useTypewriter /\ nBars = 1 /\ duration = 30

CaptureNext ==
    \/ AnimatorNext
    \/ \E c \in pending, ok \in BOOLEAN : ToBlobDone(c, ok)

CaptureSpec == CaptureInit /\ [][CaptureNext]_vars

(* ---------------- specification of a generateVideo run ---------------- *)
\* one run of generateVideo on a one-bar chart animated over half a
\* second, in either title mode, without a debug session, on a host that
\* supports every type of the list or none
AppSpecInit ==
    /\ RecorderInit
    /\ HostInit
    /\ AnimatorInit
    /\ DebugInit
    /\ PageInit
    /\ IoInit
    /\ AppInit
    /\ supported \in {{}, TypeSet}
    /\ duration = 30 /\ nBars = 1 /\ ~debugEnabled

AppNext ==
    \/ \E chart \in BOOLEAN : app.runs = 0 /\ GenerateVideo(chart)
    \/ \E k \in Timelines, dt \in 1..MaxDt : AppTick(k, dt)
    \/ \E k \in Timelines : AppEmptyTick(k)
    \/ Resume
    \/ \E e \in Encoders, size \in ChunkSizes : OnDataAvailable(e, size)
    \/ \E e \in Encoders : OnStop(e)
    \/ \E e \in Encoders : OnError(e)

\* the gsap ticker keeps rendering a live timeline, with or without
\* children, the host delivers the stop event of a stopped encoder, and a
\* continuation whose promise has settled is run
AppFairness ==
    /\ WF_vars(\E k \in Timelines, dt \in 1..MaxDt : AppTick(k, dt))
    /\ WF_vars(\E k \in Timelines : AppEmptyTick(k))
    /\ WF_vars(\E e \in Encoders : OnStop(e))
    /\ WF_vars(Resume)

AppSpec == AppSpecInit /\ [][AppNext]_vars /\ AppFairness

(* ======================= the claims ======================= *)
Resolved == rev.op = "onstop" /\ rev.result = "resolved"

NonEmpty(cs) == SelectSeq(cs, LAMBDA c : c.size > 0)

\* C1: start() while isRecording throws and leaves the chunk buffer, the
\* stream, the encoder session, the artifact and the Recording state as
\* they were.
C1_StartWhileRecordingThrows ==
    [][(isRecording /\ rev'.op = "start") =>
         /\ rev'.result = "error"
         /\ UNCHANGED <<chunks, stream, mediaRecorder, enc, videoBlob,
                        isRecording>>]_vars

C1_Witness ==
    /\ rev.op = "start" /\ rev.result = "error"
    /\ isRecording /\ chunks # <<>>

\* C2: stop() on a recorder that is not Recording (never started, or already
\* stopped) fails with an error and changes neither the recorder's state
\* nor its artifact.
C2_StopWhenNotRecordingThrows ==
    [][(~isRecording /\ rev'.op = "stop") =>
         /\ rev'.result = "error"
         /\ UNCHANGED <<isRecording, videoBlob, chunks, stream, mediaRecorder,
                        enc, promise, tracksStopped>>]_vars

C2_Witness ==
    /\ rev.op = "stop" /\ rev.result = "error"
    /\ stopped /\ ~isRecording /\ videoBlob # Null

\* C3: whenever a stop() resolves, the artifact has byte length > 0,
\* whatever chunks the encoder delivered (none, or only empty ones).
C3_ArtifactNotEmpty == Resolved => BlobSize(videoBlob) > 0

\* C4: once a stop() has resolved, every later start() fails: the recorder
\* does not go back to Recording and its artifact is not discarded.
C4_NoRestart ==
    [][(stopped /\ rev'.op = "start") =>
         /\ rev'.result = "error"
         /\ UNCHANGED <<isRecording, videoBlob>>]_vars

\* C5: a stop() issued while an earlier stop() still waits for the encoder's
\* finalization is rejected with an error and does not disturb the pending
\* stop(): no promise is created and the handlers stay as they were.
StopWaiting ==
    /\ mediaRecorder # 0
    /\ enc[mediaRecorder].stopPending
    /\ \E q \in Promises : promise[q] = "pending" /\ promiseEnc[q] = mediaRecorder

C5_OverlappingStopRejected ==
    [][(StopWaiting /\ rev'.op = "stop") =>
         /\ rev'.result = "error"
         /\ UNCHANGED <<enc, promise>>]_vars

\* C6: when stop() resolves, the artifact is the concatenation, in delivery
\* order, of exactly the non-empty chunks the encoder of that recording has
\* delivered since the matching start().
C6_ArtifactIsDeliveredChunks ==
    Resolved =>
        videoBlob = NewBlob(NonEmpty(delivered[promiseEnc[rev.promise]]))

\* C7 as stated: the promise of stop() settles only after the encoder's
\* finalization (stop) event.
C7_SettlesOnlyAfterFinalization ==
    \A p \in Promises :
        promise[p] \in {"resolved", "rejected"} => enc[promiseEnc[p]].finalized

\* C7 as amended: the promise of stop() resolves only at the encoder's stop
\* event (it may be rejected before it); at the moment it resolves the
\* artifact is set, the recorder is not Recording and the tracks of the live
\* stream, and of the stream the matching start() captured, are stopped.
C7_ResolvesAtFinalization ==
    /\ \A p \in Promises :
          promise[p] = "resolved" => enc[promiseEnc[p]].finalized
    /\ Resolved =>
          /\ videoBlob # Null
          /\ ~isRecording
          /\ stream \in tracksStopped
          /\ promiseEnc[rev.promise] \in tracksStopped

C7_Witness == Resolved /\ BlobSize(videoBlob) > 0

Total == TotalDuration(duration, nBars)

Called(e, cb) == e.op = "tick" /\ \E i \in 1..Len(e.cbs) : e.cbs[i] = cb

\* C8: a timeline that is not cancelled invokes the completion callback
\* exactly once: never twice, once its playhead has reached the end it has
\* invoked it, and the invocation is the last callback of its tick, right
\* after that tick's progress callback.
C8_CompletesExactlyOnce ==
    /\ \A k \in Timelines :
          /\ tl[k].completeCalls <= 1
          /\ (tl[k].state # "killed" /\ tl[k].time = Total)
                => tl[k].completeCalls = 1
    /\ Called(aev, "complete") =>
          /\ aev.cbs[Len(aev.cbs)] = "complete"
          /\ Called(aev, "progress")

\* C9: every value a timeline built for the chart gives to the progress
\* callback lies in [0,100] and is not smaller than the one before it, and
\* the value given in the tick that completes the timeline is exactly 100.
C9_ProgressMonotoneTo100 ==
    [][\A k \in Timelines :
         (Called(aev', "progress") /\ aev'.tl = k /\ ~tl[k].empty) =>
            /\ tl'[k].progress >= 0
            /\ tl'[k].progress <= 100 * Total
            /\ tl'[k].progress >= tl[k].progress
            /\ Called(aev', "complete") => tl'[k].progress = 100 * Total]_vars

C9_Witness ==
    /\ Called(aev, "complete")
    /\ tl[aev.tl].progress = 100 * Total
    /\ Total > duration

\* C10: a timeline destroyed before it completed (also before its first
\* tick) never invokes the completion callback, and no tick of it, so no
\* progress callback and no redraw, happens afterwards.
C10_DestroyedNeverFires ==
    \A k \in cancelled :
        /\ tl[k].state = "killed"
        /\ tl[k].completeCalls = 0
        /\ ~(aev.op = "tick" /\ aev.tl = k)

C10_Witness == aev.op = "destroy" /\ aev.tl \in cancelled

Running == timeline # 0 /\ tl[timeline].state = "active"

\* C11 as stated: destroy() with no running timeline (never started,
\* completed, cancelled) changes no animator state and invokes no callback.
C11_DestroyChangesNothing ==
    [][(aev'.op = "destroy" /\ ~Running) =>
         /\ aev'.cbs = <<>>
         /\ UNCHANGED <<timeline, tl, frameCounter, cancelled, duration,
                        useTypewriter>>]_vars

\* C11 as amended: destroy() with no running timeline invokes no callback
\* and changes no timeline, frame counter or setting; it leaves the animator
\* without a timeline, so it drops the reference to a completed one; and a
\* destroy() right after a destroy() changes nothing.
C11_DestroyIdempotent ==
    [][/\ (aev'.op = "destroy" /\ ~Running) =>
            /\ aev'.cbs = <<>>
            /\ timeline' = 0
            /\ UNCHANGED <<tl, frameCounter, cancelled, duration,
                           useTypewriter>>
       /\ (aev.op = "destroy" /\ aev'.op = "destroy") =>
            UNCHANGED <<timeline, tl, frameCounter, cancelled, duration,
                        useTypewriter>>]_vars

C11_Witness ==
    /\ aev.op = "destroy" /\ aev.tl # 0
    /\ tl[aev.tl].state = "completed"
    /\ timeline = 0

Built == timeline # 0 /\ ~tl[timeline].empty

\* C12: in a timeline built for n >= 2 bars, the growth of bar i+1 starts
\* no earlier than the growth of bar i.
C12_StaggerMonotone ==
    Built =>
        \A i \in 1..(nBars - 1) :
            TweenStart(duration, nBars, i + 1) >= TweenStart(duration, nBars, i)

C12_Witness ==
    /\ Built /\ nBars = 3
    /\ 1 \in tl[timeline].done
    /\ 3 \notin tl[timeline].done

\* C13: the growth of the last bar ends no later than the Bars phase, at
\* titleDuration + barsDuration.
C13_LastBarEndsInBarsPhase ==
    Built =>
        TweenEnd(duration, nBars, nBars) <=
            TitleDuration(duration) + BarsDuration(duration)

\* C14: the timeline is exactly as long as the duration: the title ends at
\* 0.2 D, the labels at 0.8 D, the hold fills the last 0.2 D, and a timeline
\* that completed did so at elapsed time D.
C14_PhasesFillDuration ==
    Built =>
        /\ TweenEnd(duration, nBars, TitleTween) * 10 = 2 * duration
        /\ TweenEnd(duration, nBars, LabelsTween(nBars)) * 10 = 8 * duration
        /\ HoldStart(duration, nBars) * 10 = 8 * duration
        /\ Total = duration
        /\ tl[timeline].state = "completed" => tl[timeline].time = duration

Position(t) == CHOOSE i \in 1..Len(Types) : Types[i] = t

\* C15: on a host that supports none of the types of the preference list,
\* start() fails: the recorder never enters Recording and holds no encoder
\* session.
C15_NoCodecNoRecording ==
    supported = {} => (~isRecording /\ mediaRecorder = 0)

\* C16: detectMimeType returns the first type of the preference list that
\* the host supports: never an unsupported type, never a type that a
\* supported one precedes, and the unspecified default exactly when no type
\* of the list is supported.
C16_FirstSupportedType ==
    /\ mimeType \in supported \cup {NoType}
    /\ mimeType # NoType =>
          \A j \in 1..(Position(mimeType) - 1) : Types[j] \notin supported
    /\ mimeType = NoType <=> supported = {}

C16_Witness ==
    /\ rev.op = "start" /\ rev.result = "ok"
    /\ mimeType = "video/webm"
    /\ "video/mp4" \in supported

\* C17: when the encoder reports an error to a pending stop(), that stop()
\* fails; from then on the recorder is not Recording, no artifact becomes
\* available and a start() is refused.
ErrorFailedStop == rev.op = "onerror" /\ rev.result = "rejected"

C17_ErrorLeavesRecorderUnusable ==
    [][ErrorFailedStop =>
         /\ ~isRecording /\ ~isRecording'
         /\ videoBlob' = Null
         /\ rev'.op = "start" => rev'.result = "error"]_vars

Errors == SelectSeq(logs, LAMBDA l : l.level = "ERROR")

\* C18: every frame stored carries the frameNumber that was passed to the
\* captureFrame call that stored it, whatever the number of pending calls
\* and the order in which their encodes complete.
C18_FrameKeepsSequenceNumber ==
    \A i \in 1..Len(frames) : frames[i].number = requested[frames[i].call]

C18_Witness ==
    /\ Len(frames) = 2
    /\ frames[1].call > frames[2].call
    /\ frames[1].number # frames[2].number

\* C19: a capture whose encode fails stores no frame and logs one error
\* entry; the failure touches neither the timelines nor the frame counter
\* nor the other pending captures, so every call ends as exactly one of a
\* stored frame, an error entry or a pending capture.
C19_EncodeFailureIsSkipped ==
    [][/\ (logs' # logs /\ logs'[Len(logs')].level = "ERROR") =>
            /\ frames' = frames
            /\ Len(logs') = Len(logs) + 1
            /\ pending' \subseteq pending
            /\ UNCHANGED <<timeline, tl, frameCounter, cancelled>>
       /\ Len(frames') + Len(Errors') + Cardinality(pending')
            = Len(requested')]_vars

C19_Witness ==
    /\ Len(logs) = 2
    /\ logs[1].level = "ERROR"
    /\ Len(frames) = 1 /\ frames[1].call = 2
    /\ Built /\ tl[timeline].state = "completed"

\* C20: a createHorizontalBarChartTimeline that fails for want of a chart
\* leaves the animator without a timeline, and the timeline it had begun
\* never invokes the progress or the completion callback.
C20_FailedCreateLeavesNoTimeline ==
    /\ timeline # 0 => ~tl[timeline].empty
    /\ \A k \in Timelines :
          tl[k].empty => (tl[k].progress = -1 /\ tl[k].completeCalls = 0)

\* C23: validateData accepts a data object if and only if both arrays
\* exist, have the same length of at least 1, and every value is a finite
\* number; NaN, +Infinity, -Infinity and non-numbers are refused.
FiniteNumber(v) == v = "number"

WellFormed(d) ==
    /\ d.object
    /\ d.countries.kind = "array"
    /\ d.gdp.kind = "array"
    /\ Len(d.countries.items) = Len(d.gdp.items)
    /\ Len(d.gdp.items) >= 1
    /\ \A i \in 1..Len(d.gdp.items) : FiniteNumber(d.gdp.items[i])

C23_AcceptsIffFinite ==
    validation # "none" => (validation = "ok" <=> WellFormed(data))

\* C24: download(name) fails when there is no artifact; otherwise it saves
\* under the name followed by ".mp4" exactly when the negotiated type is
\* MP4 and by ".webm" otherwise, and a name that already ends with that
\* extension is kept as it is.
Mp4 == mimeType = "video/mp4"

C24_DownloadExtension ==
    [][saved' # saved =>
         IF videoBlob = Null THEN saved'.error
         ELSE LET name == saved'.name
                  ext == IF Mp4 THEN ".mp4" ELSE ".webm"
              IN  /\ ~saved'.error
                  /\ saved'.file = IF name[Len(name)] = ext THEN name
                                   ELSE name \o <<ext>>]_vars

C24_Witness ==
    /\ Mp4 /\ videoBlob # Null
    /\ saved.name = <<"clip", ".mp4">>
    /\ saved.file = <<"clip", ".mp4">>

C24_WitnessDefault ==
    /\ mimeType = NoType /\ videoBlob # Null
    /\ saved.name = <<"chart-video">>
    /\ saved.file = <<"chart-video", ".webm">>

\* C25: in fade mode every redraw of the Bars and Labels phases draws the
\* title at the title's current reveal opacity, so a fully revealed title
\* is never drawn invisible again.
C25_TitleStaysVisible ==
    (~useTypewriter /\ aev.op = "tick") =>
        \A i \in 1..Len(aev.alphas) : aev.alphas[i] = tl[aev.tl].opacity

\* C26: in typewriter mode no redraw of any phase raises an error, so
\* the run reaches its completion callback.
C26_TypewriterRedrawsNeverRaise ==
    useTypewriter => ~Called(aev, "redrawError")

\* C27: at every tick each bar's scale lies in [0, 1]; it is 0 before the
\* bar's growth start and 1 after the bar's growth end.
C27_BarScaleFollowsPhase ==
    \A k \in Timelines : (tl[k].state = "active" /\ ~tl[k].empty) =>
        \A i \in 1..nBars :
            /\ tl[k].scaleX[i] \in 0..100
            /\ tl[k].time < TweenStart(duration, nBars, i) =>
                  tl[k].scaleX[i] = 0
            /\ tl[k].time > TweenEnd(duration, nBars, i) =>
                  tl[k].scaleX[i] = 100

C27_FadeMode == ~useTypewriter => C27_BarScaleFollowsPhase

\* C28: with a sampler attached the frame counter passes through every
\* value, so whatever the timing of the ticks a capture is requested for
\* the counter value 1 and for every multiple of 10, each exactly once.
C28_EveryDueFrameCaptured ==
    [][\A f \in (frameCounter + 1)..frameCounter' :
          Captures(f) =>
             /\ Len(requested') = Len(requested) + 1
             /\ requested'[Len(requested')] = f]_vars

\* C30: a pending frame capture never delays the Animator: while captures
\* are pending a live timeline can still tick, report progress and complete.
C30_PendingNeverBlocks ==
    \A k \in Timelines :
        (/\ pending # {}
         /\ tl[k].state = "active" /\ ~tl[k].empty
         /\ tl[k].time < Total) =>
            ENABLED (\E dt \in 1..MaxDt : Tick(k, dt))

C30_Witness ==
    /\ Cardinality(pending) = 2
    /\ Called(aev, "progress") /\ Called(aev, "complete")

\* C21: every recorder that generateVideo puts into Recording eventually
\* leaves Recording, also when the timeline's creation throws or a redraw
\* throws during a tick.
C21_RecorderEventuallyStops == isRecording ~> ~isRecording

\* C22: every generateVideo run that starts eventually ends with
\* isGenerating reset and the video result or an error message shown; a
\* stop() failure inside the completion callback is reported.
C22_RunEventuallyEnds ==
    (app.runs > 0) ~> (~app.isGenerating /\ app.shown \in {"result", "error"})

\* C29: in generateVideo the recorder is Recording before the first tick,
\* stop() is called exactly once and only after the completion callback has
\* fired, and the result is shown only after stop() has resolved with an
\* artifact.
C29_GenerateVideoOrder ==
    [][/\ (aev'.op = "tick" /\ tl' # tl) => isRecording
       /\ app'.stops # app.stops =>
            /\ Completes(aev')
            /\ rev'.op = "stop"
       /\ app'.stops = (IF \E k \in Timelines : tl'[k].completeCalls > 0
                        THEN 1 ELSE 0)
       /\ app'.shown = "result" =>
            /\ app'.promise # 0 /\ promise'[app'.promise] = "resolved"
            /\ videoBlob' # Null
            /\ timeline' = 0]_vars

C29_Witness ==
    /\ \E k \in Timelines : /\ tl[k].state = "completed" /\ ~tl[k].empty
                             /\ tl[k].time = Total
    /\ app.shown = "result" /\ ~app.isGenerating
    /\ app.stops = 1 /\ BlobSize(videoBlob) > 0
    /\ ~isRecording

\* C35: every stop() that was accepted settles once the encoder emits its
\* stop or error event: the event of MediaRecorder e leaves no promise of a
\* stop() of e pending, also when stop() was called more than once before
\* the event.
C35_AcceptedStopSettles ==
    [][\A e \in Encoders :
         (rev'.op \in {"onstop", "onerror"} /\ enc'[e] # enc[e]) =>
             \A p \in Promises :
                 promiseEnc[p] = e => promise'[p] # "pending"]_vars

(* ---------------- specification of the typewriter title ---------------- *)
\* the Animator in typewriter mode on a one-bar chart animated over half a
\* second, for a title of any length
TitleInit ==
    /\ RecorderInit
    /\ HostInit
    /\ AnimatorInit
    /\ DebugInit
    /\ IoInit
    /\ AppInit
    /\ config \in {[DefaultConfig EXCEPT !.title = n] : n \in Titles}
    /\ loader = NoLoader
    /\ currentData = NoData
    /\ RendererInit
    /\ supported = TypeSet
    /\ useTypewriter /\ ~debugEnabled /\ nBars = 1 /\ duration = 30

TitleSpec == TitleInit /\ [][AnimatorNext]_vars

\* Math.round(n / d) for n >= 0 and d > 0
Round(n, d) == (2 * n + d) \div (2 * d)

\* C32: in typewriter mode a redraw at reveal fraction r, the progress of
\* the title tween, shows the first round(r * titleLength) characters of
\* the title.
C32_TypewriterShowsRounded ==
    (useTypewriter /\ aev.op = "tick") =>
        \A i \in 1..Len(aev.chars) :
            aev.chars[i] =
                Round(recording.title * Elapsed(TitleTween, tl[aev.tl].time),
                      Length(TitleTween))

\* the initial state of the animation as drawn: the title hidden, every bar
\* at scale 0, the value labels hidden
InitialStateShown(s) ==
    /\ s.alpha = 0 \/ s.chars = 0
    /\ \A i \in 1..nBars : s.bars[i] = 0
    /\ s.labels = 0

\* C34: at the moment the recorder enters Recording, the recording surface
\* shows the initial state of the animation.
C34_SurfaceInitialAtRecording ==
    [][(~isRecording /\ isRecording') => InitialStateShown(surface')]_vars

(* ---------------- specification of a re-created timeline ---------------- *)
\* one Animator whose createHorizontalBarChartTimeline is called again, at
\* any moment: a one-bar chart animated over half a second, the title
\* fading in, the debug logger enabled so that frames are counted
RestartInit == CaptureInit

RestartNext ==
    \/ \E chart \in BOOLEAN : CreateTimeline(chart)
    \/ \E k \in Timelines, dt \in 1..MaxDt : Tick(k, dt)
    \/ \E k \in Timelines : EmptyTick(k)
    \/ Destroy

RestartSpec == RestartInit /\ [][RestartNext]_vars

Live == {k \in Timelines : tl[k].state = "active"}

Creates(e) == e.op \in {"create", "createError"}

\* C37: an Animator drives at most one live timeline: a call of
\* createHorizontalBarChartTimeline while a timeline exists leaves the old
\* one dead and the frame counter at 0, and no callback of a timeline that
\* was killed runs afterwards.
C37_OneLiveTimeline ==
    [][/\ Cardinality(Live') <= 1
       /\ (Creates(aev') /\ timeline' # timeline) =>
            /\ frameCounter' = 0
            /\ timeline # 0 => tl'[timeline].state # "active"
            /\ Live' \subseteq {timeline'}
       /\ \A k \in Timelines :
            tl[k].state = "killed" =>
                /\ tl'[k] = tl[k]
                /\ ~(aev'.op = "tick" /\ aev'.tl = k)]_vars

\* a second timeline created while the first was running and had counted
\* and captured a frame
C37_Witness ==
    /\ aev.op = "create"
    /\ timeline = 2
    /\ 1 \in cancelled /\ tl[1].state = "killed"
    /\ requested # <<>>
    /\ frameCounter = 0

(* ---------------- specification of consecutive debug runs ---------------- *)
\* runs of generateVideo with the debug logger enabled, one after the
\* other: a one-bar chart animated over half a second, the title fading
\* in, on a host that supports every type of the list, with an encoder
\* that reports no error; a capture completes at any later moment
SessionInit ==
    /\ RecorderInit
    /\ HostInit
    /\ AnimatorInit
    /\ DebugInit
    /\ IoInit
    /\ AppInit
    /\ PageInit
    /\ supported = TypeSet
    /\ debugEnabled /\ ~useTypewriter /\ nBars = 1 /\ duration = 30

SessionNext ==
    \/ app.runs < MaxRuns /\ GenerateVideo(TRUE)
    \/ \E k \in Timelines, dt \in 1..MaxDt : AppTick(k, dt)
    \/ \E e \in Encoders : OnStop(e)
    \/ Resume
    \/ \E c \in pending, ok \in BOOLEAN : ToBlobDone(c, ok)

SessionSpec == SessionInit /\ [][SessionNext]_vars

\* C36: after startSession() the frames buffer holds only frames whose
\* capture was requested during that session, also when a capture of the
\* session before completes after the new session has started.
C36_FramesOfThisSession ==
    \A i \in 1..Len(frames) : frames[i].call > sessionStart

FrameNumbers(fs) == {fs[i].number : i \in 1..Len(fs)}

\* within one timeline the frame counter never decreases and a capture is
\* requested with the number the counter has just been raised to
C39_WithinTimeline ==
    [][/\ timeline' = timeline => frameCounter' >= frameCounter
       /\ requested' # requested =>
            /\ requested' = Append(requested, frameCounter')
            /\ frameCounter' > frameCounter]_vars

\* C39: within one timeline the frame counter never decreases and the
\* numbers of the requested captures strictly increase, so that the frames
\* of the buffer have distinct numbers and downloadFrame(n) identifies at
\* most one of them.
C39_FrameNumbersIdentify ==
    [][/\ timeline' = timeline => frameCounter' >= frameCounter
       /\ requested' # requested =>
            /\ requested' = Append(requested, frameCounter')
            /\ frameCounter' > frameCounter
       /\ Cardinality(FrameNumbers(frames')) = Len(frames')]_vars

(* ---------------- specification of the loads ---------------- *)
\* files and the example loaded one after the other, each with any outcome
LoadInit ==
    /\ RecorderInit
    /\ HostInit
    /\ AnimatorInit
    /\ DebugInit
    /\ IoInit
    /\ AppInit
    /\ UiInit
    /\ RendererInit
    /\ supported = TypeSet
    /\ duration = 30 /\ nBars = 1 /\ ~useTypewriter /\ ~debugEnabled

LoadNext ==
    \/ \E name \in LoadNames, read \in FileReads, strings \in BOOLEAN :
          HandleFileLoad(name, read, strings)
    \/ \E read \in UrlReads, strings \in BOOLEAN :
          LoadExampleData(read, strings)

LoadSpec == LoadInit /\ [][LoadNext]_vars

\* C38: a load that fails (unreadable file, invalid JSON, failed validation,
\* HTTP or network error) leaves the loader's data and file name and the
\* application's current data set as they were.
C38_FailedLoadChangesNothing ==
    [][loader'.promise = "rejected" =>
         /\ loader'.data = loader.data
         /\ loader'.fileName = loader.fileName
         /\ currentData' = currentData]_vars

\* a file refused by the validation after another one was loaded
C38_Witness ==
    /\ loader.promise = "rejected"
    /\ validation = "values"
    /\ loader.data # NoData /\ loader.fileName = "a.json"
    /\ currentData = loader.data
    /\ app.shown = "error"

(* ---------------- specification of a run with the inputs in use ---------------- *)
\* one run of generateVideo, started with any configuration, on a one-bar
\* chart with the title fading in, on a host that supports every type of
\* the list, while the inputs of the configuration are changed
ConfigInit ==
    /\ RecorderInit
    /\ HostInit
    /\ AnimatorInit
    /\ DebugInit
    /\ IoInit
    /\ AppInit
    /\ config \in Configs
    /\ loader = [data |-> <<Sample(nBars)>>, fileName |-> "a.json",
                 promise |-> "resolved"]
    /\ currentData = loader.data
    /\ recording = NoRecording
    /\ surface = Erased
    /\ supported = TypeSet
    /\ duration = 30 /\ nBars = 1 /\ ~useTypewriter /\ ~debugEnabled

ConfigNext ==
    \/ app.runs = 0 /\ GenerateVideo(TRUE)
    \/ \E key \in ConfigKeys : \E value \in ConfigValues(key) :
          app.isGenerating /\ SetValue(key, value)
    \/ \E k \in Timelines, dt \in 1..MaxDt : AppTick(k, dt)
    \/ \E e \in Encoders : OnStop(e)
    \/ Resume

ConfigSpec == ConfigInit /\ [][ConfigNext]_vars

\* C31: while a generation is running, no step, and so no change of the
\* configuration through the inputs, changes the style, the surface size
\* and the frame rate that the run's renderer and recorder were given or
\* the duration of its Animator.
C31_RunKeepsItsConfiguration ==
    [][app.isGenerating => UNCHANGED <<duration, recording>>]_vars

\* the run is under way with values of its own for every key, and all four
\* keys of the configuration have been changed meanwhile
C31_Witness ==
    /\ app.isGenerating
    /\ timeline # 0 /\ tl[timeline].time > 0
    /\ recording.title # config.title
    /\ recording.barColor # config.barColor
    /\ recording.width # GetResolution(config.resolution).width
    /\ duration # config.videoDuration

(* ---------------- specification of repeated Generate clicks ---------------- *)
\* Generate clicked at any moment, with and without data loaded, on a
\* one-bar chart animated over half a second with the title fading in, on a
\* host that supports every type of the list, with an encoder that
\* reports no error; chart tells whether createHorizontalBarChartTimeline
\* finds what it needs or throws
ClickInit ==
    /\ RecorderInit
    /\ HostInit
    /\ AnimatorInit
    /\ DebugInit
    /\ IoInit
    /\ AppInit
    /\ config = DefaultConfig
    /\ loader \in {NoLoader,
                   [data |-> <<Sample(nBars)>>, fileName |-> "a.json",
                    promise |-> "resolved"]}
    /\ currentData = loader.data
    /\ recording = NoRecording
    /\ surface = Erased
    /\ supported = TypeSet
    /\ duration = 30 /\ nBars = 1 /\ ~useTypewriter /\ ~debugEnabled

ClickNext ==
    \/ \E chart \in BOOLEAN :
          /\ app.runs < MaxRuns \/ app.isGenerating \/ currentData = NoData
          /\ GenerateVideo(chart)
    \/ \E k \in Timelines, dt \in 1..MaxDt : AppTick(k, dt)
    \/ \E k \in Timelines : AppEmptyTick(k)
    \/ Resume
    \/ \E e \in Encoders : OnStop(e)

ClickSpec == ClickInit /\ [][ClickNext]_vars

\* the VideoRecorders that are Recording on the recording canvas: the
\* application's, and those it has replaced without stopping them
RecordersRecording == app.orphaned + (IF isRecording THEN 1 ELSE 0)

====
